---- MODULE Spec2Model ----
\* State-machine model of src/bot.py: the Telegram message handlers (run one
\* at a time by the polling application's event loop), the files under
\* data/ they read and write, and the periodic_reports thread.
EXTENDS Integers, Sequences, FiniteSets, TLC

\* ------------------------------------------------------------------ bounds
\* MaxTurns: text messages of one user in a run that is one conversation.
\* MaxMsgs: updates of any kind and user in a run at a standing clock.
\* MixMsgs, MixTicks: updates and clock advances in a run that mixes them.
\* MaxTicks: clock advances in a run with a single update.
MaxTurns == 6
MaxMsgs == 3
MixMsgs == 2
MixTicks == 1
MaxTicks == 4

\* ------------------------------------------------------------ input sets
Users == {1, 2}

\* Message texts, as character sequences.
Texts == { <<"h", "i", "?">>, <<"o", "k">> }

\* response.text values the model can return (before .strip()).
ModelTexts == { <<" ", "y", "e", "s", " ">> }

\* str(e) of the exceptions the model call can raise.
ErrorTexts == { <<"4", "2", "9", " ", "l", "i", "m", "i", "t">>,
                <<"Q", "u", "o", "t", "a">>,
                <<"5", "0", "0">> }

\* user.first_name of each user (user 2 has none).
FirstName(u) == IF u = 1 THEN <<"A", "n", "n">> ELSE <<>>

\* Wall-clock instants (seconds since 00:00:00 of day 0) at which a run
\* starts: 23:00:00 (the minute of the hourly and the daily report) and
\* 23:59:30 (half a minute before the next day) of day 0.
ReportMinute == 23 * 3600

BeforeMidnight == 23 * 3600 + 59 * 60 + 30

\* --------------------------------------------------------------- helpers
Range(s) == { s[i] : i \in 1..Len(s) }

Min(a, b) == IF a < b THEN a ELSE b

Max(a, b) == IF a < b THEN b ELSE a

\* Python s[:n]
Take(s, n) == SubSeq(s, 1, Min(n, Len(s)))

\* Python s[-n:] for n > 0
LastN(s, n) == SubSeq(s, Max(1, Len(s) - n + 1), Len(s))

IsWhitespace(c) == c \in {" ", "\n", "\t"}

RECURSIVE LStrip(_)
LStrip(s) == IF s # <<>> /\ IsWhitespace(Head(s)) THEN LStrip(Tail(s)) ELSE s

RECURSIVE RStrip(_)
RStrip(s) ==
    IF s # <<>> /\ IsWhitespace(s[Len(s)]) THEN RStrip(SubSeq(s, 1, Len(s) - 1)) ELSE s

\* str.strip()
Strip(s) == RStrip(LStrip(s))

\* str.lower() on the letters the inputs use
LowerChar(c) == IF c = "Q" THEN "q" ELSE IF c = "A" THEN "a" ELSE c

Lower(s) == [i \in 1..Len(s) |-> LowerChar(s[i])]

\* sub in s
Contains(s, sub) ==
    \E i \in 0..(Len(s) - Len(sub)) : SubSeq(s, i + 1, i + Len(sub)) = sub

\* ------------------------------------------------------------- the clock
\* datetime.now() fields of the instant t
Date(t) == t \div 86400

Hour(t) == (t \div 3600) % 24

Minute(t) == (t \div 60) % 60

Second(t) == t % 60

\* get_today_date(): strftime("%Y-%m-%d"); fixed width, so equal strings are
\* equal dates
get_today_date(t) == Date(t)

\* get_current_hour(): strftime("%H")
get_current_hour(t) == Hour(t)

\* strftime("%Y-%m-%d %H:%M:%S")
Timestamp(t) ==
    [date |-> Date(t), hour |-> Hour(t), minute |-> Minute(t), second |-> Second(t)]

\* ts.startswith(f"{date} {hour}:") on a fixed-width timestamp
StartsWithDateHour(ts, date, hour) == ts.date = date /\ ts.hour = hour

\* ------------------------------------------------------------- the files
\* A path is the sequence of its parts; the last part is the extension.
get_dialogs_file(t) == <<"data/", "dialogs_", get_today_date(t), ".json">>

get_user_context_file == <<"data/", "user_context", ".json">>

get_hourly_report_file(hour) == <<"data/", "hourly_report_", hour, ".txt">>

get_daily_report_file == <<"data/", "daily_report", ".txt">>

\* filepath.endswith(suffix), on the parts of the path
EndsWith(path, suffix) == Len(path) > 0 /\ path[Len(path)] = suffix

\* File contents: a JSON list, a JSON object, a report text, or bytes that do
\* not parse as JSON (an empty or half-written file).
JsonList(s) == [type |-> "list", val |-> s]

JsonDict(d) == [type |-> "dict", val |-> d]

Unparsable == [type |-> "bad", val |-> <<>>]

\* A report file holds the bytes of report texts, each text written from
\* offset 0 of the file: a piece says that the bytes [from, to) of the file
\* are the bytes [from, to) of `text`.  A file with a whole report is one piece.
Piece(text, from, to) == [text |-> text, from |-> from, to |-> to]

TextFile(pieces) == [type |-> "text", val |-> pieces]

Exists(files, path) == path \in DOMAIN files

\* open(filepath, "w"): creates or truncates the file
Truncate(files, path) ==
    [p \in DOMAIN files \cup {path} |-> IF p = path THEN Unparsable ELSE files[p]]

\* the write and close that follow: the whole content is in the file
WriteFile(files, path, content) ==
    [p \in DOMAIN files \cup {path} |-> IF p = path THEN content ELSE files[p]]

\* load_json's value when the file is missing or does not parse
LoadDefault(path) == IF EndsWith(path, "dialogs") THEN JsonList(<<>>) ELSE JsonDict(<<>>)

load_json(files, path) ==
    IF ~Exists(files, path) THEN LoadDefault(path)
    ELSE IF files[path].type \in {"list", "dict"} THEN files[path]
    ELSE LoadDefault(path)

\* dict.get(key, [])
DictGet(d, key) == IF key \in DOMAIN d.val THEN d.val[key] ELSE <<>>

\* d[key] = value
DictSet(d, key, value) ==
    JsonDict([k \in DOMAIN d.val \cup {key} |-> IF k = key THEN value ELSE d.val[k]])

\* del d[key], when the key is present
DictDel(d, key) == JsonDict([k \in DOMAIN d.val \ {key} |-> d.val[k]])

\* ------------------------------------------------------- Dialogue entries
\* user.first_name or "Unknown"
UserName(u) == IF FirstName(u) = <<>> THEN <<"U", "n", "k", "n", "o", "w", "n">> ELSE FirstName(u)

\* new_entry of log_dialog
NewEntry(t, user_id, user_name, message_text) ==
    [timestamp |-> Timestamp(t), user_id |-> user_id, user_name |-> user_name,
     message |-> message_text]

\* `if not dialogs`: an empty list or an empty dict
IsFalsy(v) == DOMAIN v.val = {}

\* ---------------------------------------------------------- Context store
UserEntry(text) == [role |-> "user", content |-> text]

\* (a variant that stores the reply under the user's role)
ModelEntryAsUser(text) == [role |-> "user", content |-> text]

ModelEntry(text) == [role |-> "model", content |-> text]

\* str(user_id): the decimal digits of the id, one key per id
ContextKey(user_id) == user_id

get_user_context(files, user_id) ==
    DictGet(load_json(files, get_user_context_file), ContextKey(user_id))

\* (variants of the trim: none at all, and the last six)
KeepAll(messages) == messages

KeepLastSix(messages) == LastN(messages, 6)

\* messages[-5:]
KeepLast(messages) == LastN(messages, 5)

\* (a variant of the save that starts from an empty dict instead of the file)
save_user_context_fresh(files, user_id, messages) ==
    WriteFile(files, get_user_context_file,
              DictSet(JsonDict(<<>>), ContextKey(user_id), KeepLast(messages)))

save_user_context(files, user_id, messages) ==
    WriteFile(files, get_user_context_file,
              DictSet(load_json(files, get_user_context_file), ContextKey(user_id),
                      KeepLast(messages)))

clear_user_context(files, user_id) ==
    LET contexts == load_json(files, get_user_context_file)
    IN  WriteFile(files, get_user_context_file,
                  IF ContextKey(user_id) \in DOMAIN contexts.val
                  THEN DictDel(contexts, ContextKey(user_id))
                  ELSE contexts)

\* api_messages of handle_message: the system prompt, then the turns
SystemPrompt == <<"s", "y", "s">>

\* (a variant that sends the prompt and the newest turn only)
ApiMessagesNewest(user_messages) ==
    <<[role |-> "user", parts |-> <<SystemPrompt>>],
      [role |-> user_messages[Len(user_messages)].role,
       parts |-> <<user_messages[Len(user_messages)].content>>]>>

ApiMessages(user_messages) ==
    <<[role |-> "user", parts |-> <<SystemPrompt>>]>>
    \o [i \in 1..Len(user_messages) |->
          [role |-> user_messages[i].role, parts |-> <<user_messages[i].content>>]]

\* (a variant that looks for "quota" without lower-casing the message)
IsRateLimitCaseSensitive(error_msg) ==
    Contains(error_msg, <<"4", "2", "9">>)
    \/ Contains(error_msg, <<"q", "u", "o", "t", "a">>)

\* the except branch of handle_message: which message the user is sent
IsRateLimit(error_msg) ==
    Contains(error_msg, <<"4", "2", "9">>)
    \/ Contains(Lower(error_msg), <<"q", "u", "o", "t", "a">>)

\* ----------------------------------------------------------------- Reports
\* [d for d in dialogs if d["timestamp"].startswith(f"{today} {hour}:")]
RECURSIVE SelectHour(_, _, _)
SelectHour(dialogs, date, hour) ==
    IF dialogs = <<>> THEN <<>>
    ELSE LET rest == SelectHour(Tail(dialogs), date, hour)
         IN  IF StartsWithDateHour(Head(dialogs).timestamp, date, hour)
             THEN <<Head(dialogs)>> \o rest
             ELSE rest

\* (a variant without the `if "?" in d["message"]`)
QuestionsUnfiltered(messages) == [i \in 1..Len(messages) |-> messages[i].message]

\* [d["message"] for d in messages if "?" in d["message"]]
RECURSIVE Questions(_)
Questions(messages) ==
    IF messages = <<>> THEN <<>>
    ELSE IF "?" \in Range(Head(messages).message)
         THEN <<Head(messages).message>> \o Questions(Tail(messages))
         ELSE Questions(Tail(messages))

\* the question lines of a report: "- {q[:100]}" each, or the no-questions line
QuestionLines(questions) ==
    IF questions = <<>> THEN << <<"no questions">> >>
    ELSE [i \in 1..Len(questions) |-> Take(questions[i], 100)]

UniqueUsers(messages) == Cardinality({ messages[i].user_id : i \in 1..Len(messages) })

\* the text generate_hourly_report writes for hour_messages
HourlyReportText(hour_messages, current_hour) ==
    [title |-> <<"hourly", current_hour>>,
     total_messages |-> Len(hour_messages),
     unique_users |-> UniqueUsers(hour_messages),
     questions |-> QuestionLines(Take(Questions(hour_messages), 5))]

\* user_counts of generate_daily_report: <<name, count>> items in the order
\* the names first occur (the insertion order of the dict)
RECURSIVE FirstNames(_, _)
FirstNames(dialogs, seen) ==
    IF dialogs = <<>> THEN <<>>
    ELSE IF Head(dialogs).user_name \in seen THEN FirstNames(Tail(dialogs), seen)
         ELSE <<Head(dialogs).user_name>>
              \o FirstNames(Tail(dialogs), seen \cup {Head(dialogs).user_name})

UserCounts(dialogs) ==
    LET names == FirstNames(dialogs, {})
    IN  [i \in 1..Len(names) |->
            <<names[i], Cardinality({ k \in 1..Len(dialogs) : dialogs[k].user_name = names[i] })>>]

\* sorted(items, key=lambda x: x[1], reverse=True): stable, so items of equal
\* count keep their order
RECURSIVE InsertByCount(_, _)
InsertByCount(item, sorted) ==
    IF sorted = <<>> THEN <<item>>
    ELSE IF Head(sorted)[2] >= item[2]
         THEN <<Head(sorted)>> \o InsertByCount(item, Tail(sorted))
         ELSE <<item>> \o sorted

RECURSIVE SortByCount(_)
SortByCount(items) ==
    IF items = <<>> THEN <<>>
    ELSE InsertByCount(items[Len(items)], SortByCount(SubSeq(items, 1, Len(items) - 1)))

\* the text generate_daily_report writes
DailyReportText(dialogs, today) ==
    [title |-> <<"daily", today>>,
     total_messages |-> Len(dialogs),
     unique_users |-> UniqueUsers(dialogs),
     top_users |-> Take(SortByCount(UserCounts(dialogs)), 5),
     questions |-> QuestionLines(Take(Questions(dialogs), 10))]

\* ------------------------------------------------- the bytes of a report
\* The encoded length of the report template without the numbers and the
\* lines of users and questions (the hour and the date have a fixed width),
\* of the no-questions line, and of a top-user line without name and count.
HourlyFrameBytes == 470

DailyFrameBytes == 664

NoQuestionsBytes == 61

TopUserFrameBytes == 52

\* len(str(n))
Digits(n) == IF n < 10 THEN 1 ELSE IF n < 100 THEN 2 ELSE 3

\* f"- {q[:100]}\n", or the no-questions line
QuestionLineBytes(line) ==
    IF line = <<"no questions">> THEN NoQuestionsBytes ELSE 2 + Len(line) + 1

\* f"- {name}: {count} ...\n"
TopUserLineBytes(item) == TopUserFrameBytes + Len(item[1]) + Digits(item[2])

RECURSIVE QuestionBytes(_)
QuestionBytes(lines) ==
    IF lines = <<>> THEN 0 ELSE QuestionLineBytes(Head(lines)) + QuestionBytes(Tail(lines))

RECURSIVE TopUserBytes(_)
TopUserBytes(items) ==
    IF items = <<>> THEN 0 ELSE TopUserLineBytes(Head(items)) + TopUserBytes(Tail(items))

\* len(report.encode("utf-8"))
ReportBytes(report) ==
    IF report.title[1] = "hourly"
    THEN HourlyFrameBytes + Digits(report.total_messages) + Digits(report.unique_users)
         + QuestionBytes(report.questions)
    ELSE DailyFrameBytes + Digits(report.total_messages) + Digits(report.unique_users)
         + TopUserBytes(report.top_users) + QuestionBytes(report.questions)

\* the file that holds the report and nothing else
Whole(report) == TextFile(<<Piece(report, 0, ReportBytes(report))>>)

\* what is left of the pieces of a file from the offset n on
RECURSIVE Clip(_, _)
Clip(pieces, n) ==
    IF pieces = <<>> THEN <<>>
    ELSE IF Head(pieces).to <= n THEN Clip(Tail(pieces), n)
    ELSE <<[Head(pieces) EXCEPT !.from = Max(@, n)]>> \o Clip(Tail(pieces), n)

\* f.write(report) and the close, on a file opened with "w": the bytes of the
\* report go to offset 0; bytes another writer has put beyond the report's
\* length since the open stay
WriteReport(files, path, report) ==
    WriteFile(files, path,
              TextFile(<<Piece(report, 0, ReportBytes(report))>>
                       \o Clip(IF Exists(files, path) /\ files[path].type = "text"
                               THEN files[path].val ELSE <<>>,
                               ReportBytes(report))))

\* ================================================================== state
VARIABLES
    clock,      \* the wall clock, in seconds
    fs,         \* the files under data/: path -> content
    h,          \* the handler the event loop is running (one at a time)
    s,          \* the periodic_reports thread
    left,       \* what this run may still take: updates, clock advances
    history,    \* per user: the turns of the exchanges since the last /clear
    runs,       \* the aggregation calls so far: bucket -> how many
    written,    \* the artifacts written so far: bucket -> set of texts
    last_run    \* the latest aggregation that reached its filter

vars == <<clock, fs, h, s, left, history, runs, written, last_run>>

NoUpdate == [kind |-> "none", user |-> 0, text |-> <<>>]

NoPath == <<>>

IdleHandler ==
    [pc |-> "idle", upd |-> NoUpdate, file |-> NoPath, dialogs |-> <<>>,
     user_messages |-> <<>>, request |-> <<>>, calls |-> 0, error |-> <<>>,
     report |-> <<>>,
     sent |-> <<>>, result |-> "none", before |-> <<>>, logged_at |-> NoPath]

\* what reply_text sends
Sent(what, text) == [what |-> what, text |-> text]

NoRun == [kind |-> "none", by |-> "none", date |-> 0, hour |-> 0,
          previous |-> <<0, 0>>, log |-> <<>>, counted |-> <<>>, text |-> <<>>]

\* The data/ directory at start.  Each day's dialogs file is missing, holds
\* an empty JSON list, holds the entry of a message logged an hour before the
\* start ("old"), of a message ("now") or a question ("asked") logged in the
\* second of the start, or the entries of five questions logged in that second
\* ("busy") or the entries of thirteen messages of different lengths, twelve
\* of them questions and one longer than 100 characters, logged in that second
\* ("varied"), holds the entry of a question logged in the first second of
\* the file's day ("next": in tomorrow's file, it was logged before the local
\* clock was set back across midnight), does not parse ("bad"), or parses to
\* something else than a list of entries ("malformed").  No context file.
\* Where the process ran before, the reports of the day before are there.
InitialDialogs ==
    { <<>>, <<"list">>, <<"old">>, <<"now">>, <<"asked">>, <<"busy">>, <<"varied">>,
      <<"next">>,
      <<"bad">>, <<"malformed">> }

\* <<today's file, tomorrow's file>>
InitialDirs ==
    { <<<<"old">>, <<"list">>>>, <<<<>>, <<"list">>>>, <<<<"bad">>, <<>>>>,
      <<<<"malformed">>, <<>>>> }

BusyDirs == { <<<<"busy">>, <<>>>>, <<<<"varied">>, <<>>>> }

\* a question longer than the 100 characters a report line keeps
LongQuestion == [i \in 1..101 |-> IF i = 101 THEN "?" ELSE "a"]

VariedTexts ==
    << <<"o", "k">>, <<"h", "i", "?">>, LongQuestion,
       <<"w", "h", "y", " ", "s", "o", "?">>, <<"h", "i", "?">>,
       <<"a", "?">>, <<"b", "?">>, <<"c", "?">>, <<"d", "?">>, <<"e", "?">>,
       <<"f", "?">>, <<"g", "?">>, <<"h", "?">> >>

NextDirs == { <<<<"list">>, <<"next">>>> }

\* the directories of the runs in which messages, clock advances and the
\* reports of the thread mix
MixDirs == { <<<<"old">>, <<"list">>>>, <<<<"now">>, <<>>>>, <<<<"asked">>, <<>>>> }

\* the entry of a message logged at the instant t by user 2
OldEntry(t) == NewEntry(t, 2, UserName(2), <<"o", "k">>)

\* a JSON object that is not a list of entries
Malformed == JsonDict([k \in {"x"} |-> <<>>])

InitialFile(kind, t) ==
    IF kind = "list" THEN JsonList(<<>>)
    ELSE IF kind = "old" THEN JsonList(<<OldEntry(t - 3600)>>)
    ELSE IF kind = "now" THEN JsonList(<<OldEntry(t)>>)
    ELSE IF kind = "asked" THEN JsonList(<<NewEntry(t, 2, UserName(2), <<"h", "i", "?">>)>>)
    ELSE IF kind = "busy"
    THEN JsonList([i \in 1..5 |-> NewEntry(t, 2, UserName(2), <<"h", "i", "?">>)])
    ELSE IF kind = "varied"
    THEN JsonList([i \in 1..Len(VariedTexts) |-> NewEntry(t, 2, UserName(2), VariedTexts[i])])
    ELSE IF kind = "next"
    THEN JsonList(<<NewEntry(Date(t) * 86400, 2, UserName(2), <<"h", "i", "?">>)>>)
    ELSE IF kind = "malformed" THEN Malformed
    ELSE Unparsable

\* the reports written the day before, at the same time of day
OldHourlyReport(t) == Whole(HourlyReportText(<<OldEntry(t - 86400)>>, Hour(t - 86400)))

OldDailyReport(t) == Whole(DailyReportText(<<OldEntry(t - 86400)>>, Date(t - 86400)))

InitialFs(t, today, tomorrow) ==
    [p \in (IF today = <<>> THEN {} ELSE {get_dialogs_file(t)})
           \cup (IF tomorrow = <<>> THEN {} ELSE {get_dialogs_file(t + 86400)})
           \cup (IF today = <<"old">>
                 THEN {get_hourly_report_file(Hour(t - 86400)), get_daily_report_file}
                 ELSE {}) |->
        IF p = get_dialogs_file(t) THEN InitialFile(today[1], t)
        ELSE IF p = get_dialogs_file(t + 86400) THEN InitialFile(tomorrow[1], t + 86400)
        ELSE IF p = get_daily_report_file THEN OldDailyReport(t)
        ELSE OldHourlyReport(t)]

\* The runs explored: when the run starts, and how many updates and clock
\* advances it takes.
Kinds == {"text", "clear", "stats"}

Scenarios ==
    { [start |-> BeforeMidnight, msgs |-> MaxTurns, ticks |-> 0,
       users |-> {1}, kinds |-> {"text"}, dirs |-> InitialDirs],
      [start |-> BeforeMidnight, msgs |-> MaxMsgs, ticks |-> 0,
       users |-> Users, kinds |-> Kinds, dirs |-> InitialDirs],
      [start |-> ReportMinute, msgs |-> MixMsgs, ticks |-> MixTicks,
       users |-> {1}, kinds |-> {"text"}, dirs |-> MixDirs],
      [start |-> BeforeMidnight, msgs |-> MixMsgs, ticks |-> MixTicks,
       users |-> {1}, kinds |-> {"text"}, dirs |-> InitialDirs],
      [start |-> ReportMinute, msgs |-> 1, ticks |-> MaxTicks,
       users |-> Users, kinds |-> Kinds, dirs |-> InitialDirs],
      [start |-> ReportMinute, msgs |-> 1, ticks |-> 0,
       users |-> {1}, kinds |-> {"text"}, dirs |-> BusyDirs],
      [start |-> BeforeMidnight, msgs |-> 1, ticks |-> MixTicks,
       users |-> {1}, kinds |-> {"text"}, dirs |-> NextDirs] }

\* The runs explored under the fairness of the thread and of the clock: they
\* start at 23:00:00 and last two minutes.
FairScenarios ==
    { [start |-> ReportMinute, msgs |-> 1, ticks |-> MaxTicks,
       users |-> Users, kinds |-> Kinds, dirs |-> InitialDirs] }

InitOf(scenarios) ==
    /\ \E sc \in scenarios :
          /\ clock = sc.start
          /\ left = [msgs |-> sc.msgs, ticks |-> sc.ticks,
                     users |-> sc.users, kinds |-> sc.kinds]
          /\ \E dir \in sc.dirs : fs = InitialFs(clock, dir[1], dir[2])
    /\ h = IdleHandler
    /\ s = [pc |-> "sleep", now |-> clock, wake |-> clock, loaded |-> <<>>,
            seen |-> <<>>, complete |-> {<<>>}, raised |-> FALSE, report |-> <<>>,
            triggered |-> {}]
    /\ history = [u \in Users |-> <<>>]
    /\ runs = <<>>
    /\ written = <<>>
    /\ last_run = NoRun

Init == InitOf(Scenarios)

InitFair == InitOf(FairScenarios)

\* ------------------------------------------------------------ environment
\* whether the periodic_reports thread is in a time.sleep that has not ended
Asleep ==
    s.pc \in {"sleep", "hourly_sleep", "daily_sleep", "except_sleep"} /\ clock < s.wake

\* The clock advances, by half a minute at a time.  The periodic_reports
\* thread is not starved: it is never more than half a minute late.
Tick ==
    /\ left.ticks > 0
    /\ Asleep
    /\ clock' = clock + 30
    /\ left' = [left EXCEPT !.ticks = @ - 1]
    /\ UNCHANGED <<fs, h, s, history, runs, written, last_run>>

\* --------------------------------------------------------- the event loop
\* Polling fetches an update (a text message, /clear or /stats) and the
\* application (built without concurrent updates) starts its handler, which
\* it does only when the handler of the previous update has returned.
Dispatch(kind, u, text) ==
    /\ left.msgs > 0
    /\ kind \in left.kinds
    /\ u \in left.users
    /\ h.pc = "idle"
    /\ h' = [IdleHandler EXCEPT !.pc = "start",
                                !.upd = [kind |-> kind, user |-> u, text |-> text],
                                !.before = get_user_context(fs, u)]
    /\ left' = [left EXCEPT !.msgs = @ - 1]
    /\ UNCHANGED <<clock, fs, s, history, runs, written, last_run>>

\* The handler returns: its locals are gone; what it was given and what it
\* sent stay on record.
Return(result, sent) ==
    [IdleHandler EXCEPT !.upd = h.upd, !.before = h.before, !.logged_at = h.logged_at,
                        !.calls = h.calls, !.error = h.error,
                        !.result = result, !.sent = sent]

\* clear(): clear_user_context, then the confirmation
Clear ==
    /\ h.pc = "start"
    /\ h.upd.kind = "clear"
    /\ fs' = clear_user_context(fs, h.upd.user)
    /\ h' = Return("ok", <<Sent("cleared", <<>>)>>)
    /\ history' = [history EXCEPT ![h.upd.user] = <<>>]
    /\ UNCHANGED <<clock, s, left, runs, written, last_run>>

\* user_messages of stats(): the entries of today's file with this user id
RECURSIVE EntriesOf(_, _)
EntriesOf(dialogs, user_id) ==
    IF dialogs = <<>> THEN <<>>
    ELSE IF Head(dialogs).user_id = user_id
         THEN <<Head(dialogs)>> \o EntriesOf(Tail(dialogs), user_id)
         ELSE EntriesOf(Tail(dialogs), user_id)

\* Whether iterating `dialogs` as a list of entries raises: it is a JSON
\* object with keys (d["timestamp"] of a key raises TypeError).
Raises(dialogs) == dialogs.type = "dict" /\ ~IsFalsy(dialogs)

\* stats(): count and last timestamp of the user's entries of today's file
Stats ==
    /\ h.pc = "start"
    /\ h.upd.kind = "stats"
    /\ LET dialogs == load_json(fs, get_dialogs_file(clock))
           mine == EntriesOf(dialogs.val, h.upd.user)
       IN  IF Raises(dialogs)
           THEN h' = Return("raised", <<>>)
           ELSE h' = Return("ok", <<Sent("stats",
                                         <<Len(mine),
                                           IF mine = <<>> THEN <<>>
                                           ELSE <<mine[Len(mine)].timestamp>> >>)>>)
    /\ UNCHANGED <<clock, fs, s, left, history, runs, written, last_run>>

\* handle_message, log_dialog: get_dialogs_file() (the first clock read)
LogDialogFile ==
    /\ h.pc = "start"
    /\ h.upd.kind = "text"
    /\ h' = [h EXCEPT !.pc = "log_load", !.file = get_dialogs_file(clock)]
    /\ UNCHANGED <<clock, fs, s, left, history, runs, written, last_run>>

\* log_dialog: load_json, the timestamp (the second clock read), append, and
\* save_json's open(.., "w").  Appending to the dict that load_json returns
\* for a missing or unparsable file raises AttributeError, which leaves
\* handle_message (the call is outside its try).
LogDialogAppend ==
    /\ h.pc = "log_load"
    /\ LET dialogs == load_json(fs, h.file)
       IN  IF dialogs.type = "list"
           THEN /\ h' = [h EXCEPT !.pc = "log_save",
                           !.dialogs = Append(dialogs.val,
                                              NewEntry(clock, h.upd.user,
                                                       UserName(h.upd.user), h.upd.text))]
                /\ fs' = Truncate(fs, h.file)
           ELSE /\ h' = Return("raised", <<>>)
                /\ fs' = fs
    /\ UNCHANGED <<clock, s, left, history, runs, written, last_run>>

\* (a variant that saves the new entry alone)
LogDialogSaveNewOnly ==
    /\ h.pc = "log_save"
    /\ fs' = WriteFile(fs, h.file, JsonList(<<h.dialogs[Len(h.dialogs)]>>))
    /\ LET user_messages == Append(get_user_context(fs, h.upd.user), UserEntry(h.upd.text))
       IN  h' = [h EXCEPT !.pc = "calling", !.logged_at = h.file, !.dialogs = <<>>,
                          !.user_messages = user_messages,
                          !.request = ApiMessages(user_messages),
                          !.calls = @ + 1]
    /\ UNCHANGED <<clock, s, left, history, runs, written, last_run>>

\* save_json's json.dump and close; then get_user_context, the append of the
\* user's turn, api_messages, and the call of model.generate_content
LogDialogSave ==
    /\ h.pc = "log_save"
    /\ fs' = WriteFile(fs, h.file, JsonList(h.dialogs))
    /\ LET user_messages == Append(get_user_context(fs, h.upd.user), UserEntry(h.upd.text))
       IN  h' = [h EXCEPT !.pc = "calling", !.logged_at = h.file, !.dialogs = <<>>,
                          !.user_messages = user_messages,
                          !.request = ApiMessages(user_messages),
                          !.calls = @ + 1]
    /\ UNCHANGED <<clock, s, left, history, runs, written, last_run>>

\* generate_content returns: strip, append the model's turn, save the context,
\* send the reply
ModelReturns(text) ==
    /\ h.pc = "calling"
    /\ LET bot_reply == Strip(text)
           user_messages == Append(h.user_messages, ModelEntry(bot_reply))
       IN  /\ fs' = save_user_context(fs, h.upd.user, user_messages)
           /\ h' = [h EXCEPT !.pc = "hourly_check", !.user_messages = user_messages,
                             !.sent = <<Sent("reply", bot_reply)>>, !.result = "ok"]
           /\ history' = [history EXCEPT ![h.upd.user] =
                             @ \o <<UserEntry(h.upd.text), ModelEntry(bot_reply)>>]
    /\ UNCHANGED <<clock, s, left, runs, written, last_run>>

\* (a variant of the except branch that takes the logged entry back)
ModelRaisesRollback(error_msg) ==
    /\ h.pc = "calling"
    /\ h' = [Return("failed", <<Sent(IF IsRateLimit(error_msg) THEN "rate_limit"
                                     ELSE "error", <<>>)>>) EXCEPT !.error = error_msg]
    /\ fs' = WriteFile(fs, h.logged_at,
                       JsonList(SubSeq(fs[h.logged_at].val, 1, Len(fs[h.logged_at].val) - 1)))
    /\ UNCHANGED <<clock, s, left, history, runs, written, last_run>>

\* (a variant of the except branch that stores the user's turn)
ModelRaisesSavesTurn(error_msg) ==
    /\ h.pc = "calling"
    /\ h' = [Return("failed", <<Sent(IF IsRateLimit(error_msg) THEN "rate_limit"
                                     ELSE "error", <<>>)>>) EXCEPT !.error = error_msg]
    /\ fs' = save_user_context(fs, h.upd.user, h.user_messages)
    /\ UNCHANGED <<clock, s, left, history, runs, written, last_run>>

\* generate_content raises: the except branch sends one of two messages
ModelRaises(error_msg) ==
    /\ h.pc = "calling"
    /\ h' = [Return("failed", <<Sent(IF IsRateLimit(error_msg) THEN "rate_limit"
                                     ELSE "error", <<>>)>>) EXCEPT !.error = error_msg]
    /\ UNCHANGED <<clock, fs, s, left, history, runs, written, last_run>>

\* ------------------------------------------------------------ aggregation
HourlyBucket(t) == <<"hourly", Date(t), Hour(t)>>

DailyBucket(t) == <<"daily", Date(t)>>

\* one more call of the aggregation of a bucket
Count(f, bucket) == IF bucket \in DOMAIN f THEN f[bucket] ELSE 0

Called(f, bucket) ==
    [b \in DOMAIN f \cup {bucket} |-> IF b = bucket THEN Count(f, bucket) + 1 ELSE f[b]]

\* one more artifact text written for a bucket
Texts_of(f, bucket) == IF bucket \in DOMAIN f THEN f[bucket] ELSE {}

Wrote(f, bucket, text) ==
    [b \in DOMAIN f \cup {bucket} |->
        IF b = bucket THEN Texts_of(f, bucket) \cup {text} ELSE f[b]]

\* the hour before the hour of t, as <<date, hour>>
PreviousHour(t) == <<Date(t - 3600), Hour(t - 3600)>>

\* hour_messages of generate_hourly_report: the filter by the current date
\* and hour
HourMessages(dialogs, t) == SelectHour(dialogs, get_today_date(t), get_current_hour(t))

\* (a variant without the `if not hour_messages: return`)
HourlyNeverSkips(hour_messages) == FALSE

\* `if not hour_messages: return`
HourlySkips(hour_messages) == hour_messages = <<>>

\* the report text generate_hourly_report builds, none when it returns early
HourlyText(dialogs, t) ==
    IF HourlySkips(HourMessages(dialogs, t)) THEN <<>>
    ELSE <<HourlyReportText(HourMessages(dialogs, t), get_current_hour(t))>>

\* the local variables of a report function between its open and its write
HourlyReport(dialogs, t) ==
    [path |-> get_hourly_report_file(get_current_hour(t)), bucket |-> HourlyBucket(t),
     text |-> HourlyReportText(HourMessages(dialogs, t), get_current_hour(t))]

DailyReport(dialogs, t) ==
    [path |-> get_daily_report_file, bucket |-> DailyBucket(t),
     text |-> DailyReportText(dialogs, get_today_date(t))]

HourlyRun(by, dialogs, t) ==
    [kind |-> "hourly", by |-> by, date |-> Date(t), hour |-> Hour(t),
     previous |-> PreviousHour(t),
     log |-> load_json(fs, get_dialogs_file(t - 3600)).val,
     counted |-> HourMessages(dialogs, t),
     text |-> HourlyText(dialogs, t)]

DailyRun(by, dialogs, t) ==
    [kind |-> "daily", by |-> by, date |-> Date(t), hour |-> Hour(t),
     previous |-> PreviousHour(t),
     log |-> load_json(fs, get_dialogs_file(t)).val,
     counted |-> dialogs,
     text |-> <<DailyReportText(dialogs, get_today_date(t))>>]

\* --------------------------------- handle_message, after the reply is sent
\* str(e) of the TypeError that iterating a malformed segment raises
TypeErrorText == <<"s", "t", "r", "i", "n", "g", " ", "i", "n", "d", "i", "c", "e", "s">>

\* A report call of handle_message raised: the except branch sends one more
\* message, and the handler returns.
ReportRaised ==
    [Return("report_raised",
            h.sent \o <<Sent(IF IsRateLimit(TypeErrorText) THEN "rate_limit" ELSE "error",
                             <<>>)>>)
     EXCEPT !.error = TypeErrorText]

\* `if datetime.now().minute == 0: generate_hourly_report()`, up to the
\* open(report_file, "w") of the report: the load, the filter, the report
\* text, and the open, which empties the file.
HandlerHourly ==
    /\ h.pc = "hourly_check"
    /\ IF Minute(clock) = 0
       THEN LET dialogs == load_json(fs, get_dialogs_file(clock))
            IN  /\ runs' = Called(runs, HourlyBucket(clock))
                /\ IF IsFalsy(dialogs)
                   THEN /\ h' = [h EXCEPT !.pc = "daily_hour"]
                        /\ UNCHANGED <<fs, last_run>>
                   ELSE IF Raises(dialogs)
                   THEN /\ h' = ReportRaised
                        /\ UNCHANGED <<fs, last_run>>
                   ELSE /\ last_run' = HourlyRun("handler", dialogs.val, clock)
                        /\ IF HourlySkips(HourMessages(dialogs.val, clock))
                           THEN /\ h' = [h EXCEPT !.pc = "daily_hour"]
                                /\ fs' = fs
                           ELSE /\ h' = [h EXCEPT !.pc = "hourly_write",
                                             !.report = HourlyReport(dialogs.val, clock)]
                                /\ fs' = Truncate(fs, get_hourly_report_file(
                                                          get_current_hour(clock)))
       ELSE /\ h' = [h EXCEPT !.pc = "daily_hour"]
            /\ UNCHANGED <<fs, runs, last_run>>
    /\ UNCHANGED <<clock, s, left, history, written>>

\* f.write(report) of generate_hourly_report, and the close
HandlerHourlyWrite ==
    /\ h.pc = "hourly_write"
    /\ fs' = WriteReport(fs, h.report.path, h.report.text)
    /\ written' = Wrote(written, h.report.bucket, h.report.text)
    /\ h' = [h EXCEPT !.pc = "daily_hour", !.report = <<>>]
    /\ UNCHANGED <<clock, s, left, history, runs, last_run>>

\* `if datetime.now().hour == 23 and ...`: the first reading of the clock
HandlerDailyHour ==
    /\ h.pc = "daily_hour"
    /\ h' = IF Hour(clock) = 23 THEN [h EXCEPT !.pc = "daily_minute"]
            ELSE Return("ok", h.sent)
    /\ UNCHANGED <<clock, fs, s, left, history, runs, written, last_run>>

\* `... and datetime.now().minute == 0: generate_daily_report()`: the second
\* reading of the clock, and the call up to the open of the report
HandlerDailyMinute ==
    /\ h.pc = "daily_minute"
    /\ IF Minute(clock) = 0
       THEN LET dialogs == load_json(fs, get_dialogs_file(clock))
            IN  /\ runs' = Called(runs, DailyBucket(clock))
                /\ IF IsFalsy(dialogs)
                   THEN /\ h' = Return("ok", h.sent)
                        /\ UNCHANGED <<fs, last_run>>
                   ELSE IF Raises(dialogs)
                   THEN /\ h' = ReportRaised
                        /\ UNCHANGED <<fs, last_run>>
                   ELSE /\ h' = [h EXCEPT !.pc = "daily_write",
                                     !.report = DailyReport(dialogs.val, clock)]
                        /\ fs' = Truncate(fs, get_daily_report_file)
                        /\ last_run' = DailyRun("handler", dialogs.val, clock)
       ELSE /\ h' = Return("ok", h.sent)
            /\ UNCHANGED <<fs, runs, last_run>>
    /\ UNCHANGED <<clock, s, left, history, written>>

\* f.write(report) of generate_daily_report, the close, and the handler returns
HandlerDailyWrite ==
    /\ h.pc = "daily_write"
    /\ fs' = WriteReport(fs, h.report.path, h.report.text)
    /\ written' = Wrote(written, h.report.bucket, h.report.text)
    /\ h' = Return("ok", h.sent)
    /\ UNCHANGED <<clock, s, left, history, runs, last_run>>

\* ------------------------------------------------ the periodic_reports thread
\* The complete entry lists a reader of the segment `path` may see: the list
\* in the file, or, while log_dialog is rewriting the file, the list before
\* the append and the list after it.
CompleteLists(path) ==
    IF h.pc = "log_save" /\ h.file = path
    THEN {SubSeq(h.dialogs, 1, Len(h.dialogs) - 1), h.dialogs}
    ELSE {load_json(fs, path).val}

\* `except Exception`: the error is logged, then time.sleep(60)
SchedExcept == [s EXCEPT !.pc = "except_sleep", !.wake = clock + 60, !.raised = TRUE]

\* the thread's load of a segment, with what a reader may see on record;
\* a report function returns at once when the segment is falsy, and raises
\* when it is not a list of entries
SchedLoad(path, pc_empty, pc_loaded) ==
    LET dialogs == load_json(fs, path)
    IN  IF IsFalsy(dialogs)
        THEN [s EXCEPT !.pc = pc_empty, !.now = IF s.pc = "sleep" THEN clock ELSE @,
                       !.wake = clock + 60,
                       !.seen = dialogs.val, !.complete = CompleteLists(path)]
        ELSE IF Raises(dialogs)
        THEN [SchedExcept EXCEPT !.now = IF s.pc = "sleep" THEN clock ELSE @,
                                 !.seen = dialogs.val, !.complete = CompleteLists(path)]
        ELSE [s EXCEPT !.pc = pc_loaded, !.now = IF s.pc = "sleep" THEN clock ELSE @,
                       !.loaded = dialogs.val,
                       !.seen = dialogs.val, !.complete = CompleteLists(path)]

\* A sleep of the loop ends; `now = datetime.now()`; at minute 0
\* generate_hourly_report() is called (here up to its load), otherwise the
\* loop sleeps 30 seconds.
SchedTick ==
    /\ s.pc = "sleep"
    /\ clock >= s.wake
    /\ IF Minute(clock) = 0
       THEN /\ runs' = Called(runs, HourlyBucket(clock))
            /\ s' = [SchedLoad(get_dialogs_file(clock), "hourly_sleep", "hourly_open")
                     EXCEPT !.triggered = @ \cup {HourlyBucket(clock)}]
       ELSE /\ runs' = runs
            /\ s' = [s EXCEPT !.now = clock, !.wake = clock + 30]
    /\ UNCHANGED <<clock, fs, h, left, history, written, last_run>>

\* generate_hourly_report from its filter to its open(report_file, "w"), which
\* empties the file; when the filter keeps nothing, the return and
\* time.sleep(60)
SchedHourlyOpen ==
    /\ s.pc = "hourly_open"
    /\ last_run' = HourlyRun("scheduler", s.loaded, clock)
    /\ IF HourlySkips(HourMessages(s.loaded, clock))
       THEN /\ s' = [s EXCEPT !.pc = "hourly_sleep", !.loaded = <<>>, !.wake = clock + 60]
            /\ fs' = fs
       ELSE /\ s' = [s EXCEPT !.pc = "hourly_write", !.loaded = <<>>,
                              !.report = HourlyReport(s.loaded, clock)]
            /\ fs' = Truncate(fs, get_hourly_report_file(get_current_hour(clock)))
    /\ UNCHANGED <<clock, h, left, history, runs, written>>

\* f.write(report) and the close, then time.sleep(60)
SchedHourlyWrite ==
    /\ s.pc = "hourly_write"
    /\ fs' = WriteReport(fs, s.report.path, s.report.text)
    /\ written' = Wrote(written, s.report.bucket, s.report.text)
    /\ s' = [s EXCEPT !.pc = "hourly_sleep", !.report = <<>>, !.wake = clock + 60]
    /\ UNCHANGED <<clock, h, left, history, runs, last_run>>

\* after that sleep: `if now.hour == 23 and now.minute == 0:
\* generate_daily_report()` (up to its load), otherwise time.sleep(30)
SchedAfterHourly ==
    /\ s.pc = "hourly_sleep"
    /\ clock >= s.wake
    /\ IF Hour(s.now) = 23 /\ Minute(s.now) = 0
       THEN /\ runs' = Called(runs, DailyBucket(clock))
            /\ s' = [SchedLoad(get_dialogs_file(clock), "daily_sleep", "daily_open")
                     EXCEPT !.triggered = @ \cup {DailyBucket(clock)}]
       ELSE /\ runs' = runs
            /\ s' = [s EXCEPT !.pc = "sleep", !.wake = clock + 30]
    /\ UNCHANGED <<clock, fs, h, left, history, written, last_run>>

\* generate_daily_report from its counts to its open(report_file, "w")
SchedDailyOpen ==
    /\ s.pc = "daily_open"
    /\ last_run' = DailyRun("scheduler", s.loaded, clock)
    /\ s' = [s EXCEPT !.pc = "daily_write", !.loaded = <<>>,
                      !.report = DailyReport(s.loaded, clock)]
    /\ fs' = Truncate(fs, get_daily_report_file)
    /\ UNCHANGED <<clock, h, left, history, runs, written>>

\* f.write(report) and the close, then time.sleep(60)
SchedDailyWrite ==
    /\ s.pc = "daily_write"
    /\ fs' = WriteReport(fs, s.report.path, s.report.text)
    /\ written' = Wrote(written, s.report.bucket, s.report.text)
    /\ s' = [s EXCEPT !.pc = "daily_sleep", !.report = <<>>, !.wake = clock + 60]
    /\ UNCHANGED <<clock, h, left, history, runs, last_run>>

\* after that sleep: time.sleep(30)
SchedAfterDaily ==
    /\ s.pc = "daily_sleep"
    /\ clock >= s.wake
    /\ s' = [s EXCEPT !.pc = "sleep", !.wake = clock + 30]
    /\ UNCHANGED <<clock, fs, h, left, history, runs, written, last_run>>

\* after the sleep of the except branch: the next iteration of `while True`
SchedAfterExcept ==
    /\ s.pc = "except_sleep"
    /\ clock >= s.wake
    /\ s' = [s EXCEPT !.pc = "sleep", !.wake = clock]
    /\ UNCHANGED <<clock, fs, h, left, history, runs, written, last_run>>

\* ------------------------------------------------------------ specification
Next ==
    \/ Tick
    \/ \E u \in Users, text \in Texts : Dispatch("text", u, text)
    \/ \E u \in Users : Dispatch("clear", u, <<>>)
    \/ \E u \in Users : Dispatch("stats", u, <<>>)
    \/ Clear
    \/ Stats
    \/ LogDialogFile
    \/ LogDialogAppend
    \/ LogDialogSave
    \/ \E text \in ModelTexts : ModelReturns(text)
    \/ \E error_msg \in ErrorTexts : ModelRaises(error_msg)
    \/ HandlerHourly
    \/ HandlerHourlyWrite
    \/ HandlerDailyHour
    \/ HandlerDailyMinute
    \/ HandlerDailyWrite
    \/ SchedTick
    \/ SchedHourlyOpen
    \/ SchedHourlyWrite
    \/ SchedAfterHourly
    \/ SchedDailyOpen
    \/ SchedDailyWrite
    \/ SchedAfterDaily
    \/ SchedAfterExcept

Spec == Init /\ [][Next]_vars

\* The periodic_reports thread is a thread of its own: the steps it can take,
\* it takes; and time passes.
Fairness ==
    /\ WF_vars(Tick)
    /\ WF_vars(SchedTick)
    /\ WF_vars(SchedHourlyOpen)
    /\ WF_vars(SchedHourlyWrite)
    /\ WF_vars(SchedAfterHourly)
    /\ WF_vars(SchedDailyOpen)
    /\ WF_vars(SchedDailyWrite)
    /\ WF_vars(SchedAfterDaily)
    /\ WF_vars(SchedAfterExcept)

SpecFair == InitFair /\ [][Next]_vars /\ Fairness

\* ================================================================== claims
\* the context get_user_context returns for a user
Stored(u) == get_user_context(fs, u)

IsSuffix(a, b) == Len(a) <= Len(b) /\ a = SubSeq(b, Len(b) - Len(a) + 1, Len(b))

\* C1: whatever exchanges a user has had, the context persisted for the user
\* has at most MAX_HISTORY*2 = 10 entries, and they are the most recent turns
\* of the user's exchanges, in their order.
ContextBoundedAndRecent ==
    \A u \in Users : Len(Stored(u)) <= 5 * 2 /\ IsSuffix(Stored(u), history[u])

\* A user has had more than 10 turns and the stored context is what is left.
ContextWasTrimmed ==
    \E u \in Users : Len(history[u]) > 5 * 2 /\ Stored(u) # <<>>

\* C2 as stated: after 6 or more consecutive successful turn-pairs the stored
\* context is exactly the last 5 pairs, 10 entries.
SixPairsLeaveFivePairs ==
    \A u \in Users : Len(history[u]) >= 6 * 2 => Stored(u) = LastN(history[u], 5 * 2)

\* C2 as amended: after 6 or more consecutive successful turn-pairs the stored
\* context is exactly the last 5 entries: the last 2 pairs, preceded by the
\* reply of the pair before them.
SixPairsLeaveFiveEntries ==
    \A u \in Users :
        Len(history[u]) >= 6 * 2 =>
            /\ Stored(u) = LastN(history[u], 5)
            /\ Len(Stored(u)) = 5
            /\ Stored(u)[1].role = "model"

\* A user has had 6 consecutive successful turn-pairs.
SixPairsDone == \E u \in Users : Len(history[u]) >= 6 * 2

\* C3: a text message's handler never ends without having called the model
\* and sent the user the reply or an error message, whatever log_dialog met.
LogFailureNeverAborts ==
    (h.pc = "idle" /\ h.upd.kind = "text") =>
        (h.result \in {"ok", "failed"} /\ h.sent # <<>>)

\* C4: when the model call has failed, the segment log_dialog wrote still ends
\* with the entry of the user's message.
FailedCallKeepsLogEntry ==
    (h.pc = "idle" /\ h.result = "failed") =>
        /\ Exists(fs, h.logged_at)
        /\ fs[h.logged_at].type = "list"
        /\ fs[h.logged_at].val # <<>>
        /\ LET last == fs[h.logged_at].val[Len(fs[h.logged_at].val)]
           IN  last.user_id = h.upd.user /\ last.message = h.upd.text

\* A handler has ended after a rate-limit error of the model call.
RateLimitedHandled ==
    h.pc = "idle" /\ h.result = "failed" /\ h.sent = <<Sent("rate_limit", <<>>)>>

\* C5: a step changes a user's stored context only if it is a step of the
\* handler of that user's own update (/clear or a text message).
OnlyOwnContextChanges ==
    [][\A u \in Users :
          get_user_context(fs', u) # get_user_context(fs, u) =>
              (h.upd.user = u /\ h.pc \in {"start", "calling"})]_vars

\* A user's /clear or exchange has been carried out while another user has a
\* stored context.
OtherUserHasContext ==
    \E u \in Users, v \in Users :
        /\ u # v
        /\ h.pc = "idle" /\ h.result = "ok" /\ h.upd.user = u
        /\ h.upd.kind \in {"clear", "text"}
        /\ Stored(v) # <<>>

\* C6: no hour bucket and no day has its aggregation called more than once.
AtMostOncePerBucket == \A b \in DOMAIN runs : runs[b] <= 1

\* C7: an hourly aggregation counts exactly the entries of the hour before
\* the hour it runs in.
HourlyCountsPreviousHour ==
    last_run.kind = "hourly" =>
        last_run.counted = SelectHour(last_run.log, last_run.previous[1], last_run.previous[2])

\* C8: all artifacts written for one bucket are the same text.
AggregationIdempotent == \A b \in DOMAIN written : Cardinality(written[b]) <= 1

\* C9: what the periodic_reports thread loads from a segment is a complete
\* entry list: the one before or the one after an append in progress.
ReaderSeesCompleteList == s.seen \in s.complete

\* C10: while one user's model call is in flight, a text message of any other
\* user can be taken up.
SlowCallDelaysOnlyItsUser ==
    (h.pc = "calling" /\ left.msgs > 0 /\ "text" \in left.kinds) =>
        \A u \in left.users \ {h.upd.user} : \A text \in Texts :
            ENABLED Dispatch("text", u, text)

\* the entries of a segment's list that carry the calendar date `date`
EntriesDated(dialogs, date) ==
    Cardinality({ i \in 1..Len(dialogs) : dialogs[i].timestamp.date = date })

\* The daily aggregation of the day of the clock can no longer run: the minute
\* 23:00 is over, the periodic_reports thread has finished the iteration it
\* began in that minute, and no handler is running.
DailyRunsOver ==
    /\ Hour(clock) = 23 /\ Minute(clock) >= 1
    /\ s.pc \in {"sleep", "daily_sleep", "except_sleep"}
    /\ h.pc = "idle"

\* the file `path` begins with the bytes of a whole report
HoldsReport(files, path) == Exists(files, path) /\ files[path].type = "text"

\* the report the file `path` begins with; what follows it, if anything, is
\* the end of a longer report another writer wrote
LeadingReport(files, path) == files[path].val[1].text

\* C11: once the daily report of day D is final, it counts every entry logged
\* on day D, whatever its time of day.
DailyCoversWholeDay ==
    (/\ DailyRunsOver
     /\ HoldsReport(fs, get_daily_report_file)
     /\ LeadingReport(fs, get_daily_report_file).title = <<"daily", Date(clock)>>) =>
        LET segment == load_json(fs, get_dialogs_file(clock))
        IN  LeadingReport(fs, get_daily_report_file).total_messages
                = EntriesDated(segment.val, Date(clock))

\* the complete entry lists of the segment `path`, none when the file is
\* missing or is not a list of entries
SegmentLists(path) ==
    IF (h.pc = "log_save" /\ h.file = path) \/ load_json(fs, path).type = "list"
    THEN CompleteLists(path)
    ELSE {}

\* the window an hourly (a daily) aggregation run at the clock's instant
\* aggregates has an entry
HourWindowNonEmpty ==
    \E list \in SegmentLists(get_dialogs_file(clock)) :
        SelectHour(list, Date(clock), Hour(clock)) # <<>>

DayWindowNonEmpty ==
    \E list \in SegmentLists(get_dialogs_file(clock)) : EntriesDated(list, Date(clock)) > 0

\* the step creates the file `path` or changes its content
Changed(path) ==
    /\ path \in DOMAIN fs'
    /\ path \in DOMAIN fs => fs'[path] # fs[path]

\* C12: a step writes (creates or changes) a report artifact only if it is
\* the artifact of the window aggregated at that instant and that window has
\* an entry: aggregating an empty window leaves every artifact as it was.
EmptyWindowWritesNothing ==
    [][\A path \in DOMAIN fs' :
          /\ (path[2] = "hourly_report_" /\ Changed(path)) =>
                (path = get_hourly_report_file(Hour(clock)) /\ HourWindowNonEmpty)
          /\ (path[2] = "daily_report" /\ Changed(path)) => DayWindowNonEmpty]_vars

\* An hourly aggregation has found its window empty while the artifact of an
\* earlier day is there for the same window key.
EmptyWindowAggregated ==
    /\ last_run.kind = "hourly"
    /\ last_run.counted = <<>>
    /\ HoldsReport(fs, get_hourly_report_file(last_run.hour))
    /\ fs[get_hourly_report_file(last_run.hour)] = OldHourlyReport(clock)

\* The periodic_reports thread has called generate_daily_report for the day
\* of the start.  It does so only in an iteration that read the clock in the
\* minute 23:00 of that day (line 393).
DailyTriggered == DailyBucket(ReportMinute) \in s.triggered

RaisedRunLoopsOn == s.raised ~> (s.pc = "sleep" /\ s.now > ReportMinute)

\* The part that fails: a thread that has raised in its hourly run of 23:00
\* never triggers the daily aggregation of that day; it has skipped the test
\* of line 393, and finds the minute 23:00 over when it reads the clock again.
RaisedRunSkipsDaily == s.raised => ~DailyTriggered

\* The thread triggers the daily aggregation only in an iteration that read
\* the clock in the minute 23:00, and clocks read later are never earlier: once
\* the thread has read a later minute of the day, the call is lost for good.
DailyOnlyInReportMinute ==
    [][/\ (DailyTriggered' /\ ~DailyTriggered) => (Hour(s.now) = 23 /\ Minute(s.now) = 0)
       /\ s'.now >= s.now]_vars

\* An hourly run of 23:00 that returns is followed by the daily aggregation.
ReturnedRunTriggersNextDue == (s.pc = "hourly_sleep") ~> DailyTriggered

\* The thread has polled the clock again after a run of it raised.
PolledAfterRaise == s.raised /\ s.pc = "sleep" /\ s.now > ReportMinute

\* C14: the request built for the message that follows a user's first
\* answered message holds, after the system prompt, the first message and the
\* reply the user was sent, verbatim and in this order, then the new message.
SecondRequestHasFirstExchange ==
    (h.pc = "calling" /\ Len(history[h.upd.user]) = 2) =>
        /\ history[h.upd.user][1].role = "user"
        /\ history[h.upd.user][2].role = "model"
        /\ h.request =
              <<[role |-> "user", parts |-> <<SystemPrompt>>],
                [role |-> "user", parts |-> <<history[h.upd.user][1].content>>],
                [role |-> "model", parts |-> <<history[h.upd.user][2].content>>],
                [role |-> "user", parts |-> <<h.upd.text>>]>>

\* The model is being called for the message after a user's first exchange.
SecondRequestBuilt == h.pc = "calling" /\ Len(history[h.upd.user]) = 2

\* the errors of the model call that are rate-limit or quota errors: status
\* 429, and the quota error; "500" is none
RateLimitErrors ==
    { <<"4", "2", "9", " ", "l", "i", "m", "i", "t">>, <<"Q", "u", "o", "t", "a">> }

\* C15: when the model call has failed, the user was sent one message: the
\* rate-limit message if and only if the error is a rate-limit or quota error,
\* the generic error message otherwise; and the model was called once.
FailureMessageMatchesKind ==
    (h.pc = "idle" /\ h.result = "failed") =>
        /\ Len(h.sent) = 1
        /\ h.sent[1].what = "rate_limit" <=> h.error \in RateLimitErrors
        /\ h.sent[1].what = "error" <=> h.error \notin RateLimitErrors
        /\ h.calls = 1

\* A handler has ended after an error of the model call that is no rate-limit
\* error.
GenericErrorHandled ==
    /\ h.pc = "idle" /\ h.result = "failed"
    /\ h.error = <<"5", "0", "0">>
    /\ h.sent = <<Sent("error", <<>>)>>

\* Entries ranked by message length, longest first, entries of equal length in
\* the order of the log (earliest first).
RECURSIVE InsertByLength(_, _)
InsertByLength(entry, ranked) ==
    IF ranked = <<>> THEN <<entry>>
    ELSE IF Len(Head(ranked).message) >= Len(entry.message)
         THEN <<Head(ranked)>> \o InsertByLength(entry, Tail(ranked))
         ELSE <<entry>> \o ranked

RECURSIVE RankByLength(_)
RankByLength(entries) ==
    IF entries = <<>> THEN <<>>
    ELSE InsertByLength(entries[Len(entries)],
                        RankByLength(SubSeq(entries, 1, Len(entries) - 1)))

\* the top k of the ranking, each message cut to 100 characters
TopByLength(entries, k) ==
    [i \in 1..Min(k, Len(entries)) |-> Take(RankByLength(entries)[i].message, 100)]

\* The first k entries of the window, in log order, whose message holds a
\* "?", each message cut to 100 characters; the no-questions line when none.
QuestionIndices(entries) == { i \in 1..Len(entries) : "?" \in Range(entries[i].message) }

FirstQuestions(entries, k) ==
    LET idx == QuestionIndices(entries)
        nth(j) == CHOOSE i \in idx : Cardinality({ m \in idx : m < i }) = j - 1
    IN  IF idx = {} THEN << <<"no questions">> >>
        ELSE [j \in 1..Min(k, Cardinality(idx)) |-> Take(entries[nth(j)].message, 100)]

\* the latest aggregation run has built a report
ReportWritten == last_run.kind \in {"hourly", "daily"} /\ last_run.text # <<>>

\* the messages listed in the report the latest aggregation run built
Highlighted == last_run.text[1].questions

\* C16 as stated: the messages the report of an aggregation run lists are
\* the window's entries ranked by message length descending (ties: earliest
\* first), the top 2 for an hourly report and the top 10 for a daily report.
HighlightsRankedByLength ==
    ReportWritten =>
        Highlighted = TopByLength(last_run.counted, IF last_run.kind = "hourly" THEN 2 ELSE 10)

\* C16 as amended: the messages the report an aggregation run builds lists
\* are the window's entries whose message contains "?", in log order, the
\* first 5 for an hourly report and the first 10 for a daily report, or the
\* no-questions line.
HighlightsAreFirstQuestions ==
    ReportWritten =>
        Highlighted = FirstQuestions(last_run.counted, IF last_run.kind = "hourly" THEN 5 ELSE 10)

\* A daily report has been built for a window with more than 10 questions:
\* it lists 10, a shorter one before a longer one, and one of them cut to 100
\* characters; and the hourly report written for the same entries lists 5.
ListedInLogOrderCutAndCapped ==
    /\ ReportWritten
    /\ last_run.kind = "daily"
    /\ Cardinality(QuestionIndices(last_run.counted)) > 10
    /\ Len(Highlighted) = 10
    /\ \E i \in 1..Len(last_run.counted) :
          /\ Len(last_run.counted[i].message) > 100
          /\ Take(last_run.counted[i].message, 100) \in Range(Highlighted)
    /\ \E i \in 1..10, j \in 1..10 : i < j /\ Len(Highlighted[i]) < Len(Highlighted[j])
    /\ HourlyBucket(clock) \in DOMAIN written
    /\ \E text \in written[HourlyBucket(clock)] :
          /\ text.total_messages = Len(last_run.counted)
          /\ text.questions = FirstQuestions(last_run.counted, 5)
          /\ Len(text.questions) = 5

\* C17: when the model call has failed, the context stored for the user is
\* what it was when the message arrived.
FailedCallLeavesContext ==
    (h.pc = "idle" /\ h.result = "failed") => Stored(h.upd.user) = h.before

\* A model call has failed for a user who had a stored context.
FailedWithContext == h.pc = "idle" /\ h.result = "failed" /\ h.before # <<>>

\* adjacent turns have different roles
Alternates(turns) == \A i \in 1..(Len(turns) - 1) : turns[i].role # turns[i + 1].role

\* C18 as stated: every stored context consists of whole pairs: its length is
\* even, its first entry is a user turn, and the roles alternate.
ContextIsWholePairs ==
    \A u \in Users :
        /\ Len(Stored(u)) % 2 = 0
        /\ Stored(u) # <<>> => Stored(u)[1].role = "user"
        /\ Alternates(Stored(u))

\* C18 as amended: every stored context has at most 5 entries, its roles
\* alternate and it ends with a reply; it consists of whole pairs (even length,
\* first entry a user turn) while it has fewer than 5 entries, and with 5
\* entries, which it has from the third exchange on, it begins with a reply.
ContextAlternatesEndsWithReply ==
    \A u \in Users :
        /\ Len(Stored(u)) <= 5
        /\ Alternates(Stored(u))
        /\ Stored(u) # <<>> => Stored(u)[Len(Stored(u))].role = "model"
        /\ Len(Stored(u)) < 5 =>
              /\ Len(Stored(u)) % 2 = 0
              /\ Stored(u) # <<>> => Stored(u)[1].role = "user"
        /\ Len(Stored(u)) = 5 => Stored(u)[1].role = "model"
        /\ Len(history[u]) >= 3 * 2 => Len(Stored(u)) = 5

\* A stored context has reached 5 entries.
ContextStartsWithReply == \E u \in Users : Len(Stored(u)) = 5 /\ Stored(u)[1].role = "model"

IsPrefix(a, b) == Len(a) <= Len(b) /\ a = SubSeq(b, 1, Len(a))

\* The entry sequence of the segment `path` as the operations of the program
\* leave it: the list in the file; while log_dialog's save is rewriting the
\* file, the list it loaded, which the save has yet to put back.
SegmentEntries(handler, files, path) ==
    IF handler.pc = "log_save" /\ handler.file = path
    THEN SubSeq(handler.dialogs, 1, Len(handler.dialogs) - 1)
    ELSE IF load_json(files, path).type = "list" THEN load_json(files, path).val
    ELSE <<>>

\* C19: every operation leaves, in every segment, an entry sequence that has
\* the segment's previous entry sequence as a prefix.
SegmentsAppendOnly ==
    [][\A path \in DOMAIN fs \cup DOMAIN fs' :
          path[2] = "dialogs_" =>
              IsPrefix(SegmentEntries(h, fs, path), SegmentEntries(h', fs', path))]_vars

\* An entry has been appended to a segment that held an entry.
AppendedToEntries ==
    /\ h.pc = "calling"
    /\ Exists(fs, h.logged_at)
    /\ fs[h.logged_at].type = "list"
    /\ Len(fs[h.logged_at].val) >= 2

\* C20: every entry stored in the segment of day D carries a timestamp of
\* day D.
EntriesInOwnSegment ==
    \A path \in DOMAIN fs :
        (path[2] = "dialogs_" /\ fs[path].type = "list") =>
            \A i \in 1..Len(fs[path].val) : fs[path].val[i].timestamp.date = path[3]

====
